---- MODULE Spec2Model ----
(***************************************************************************)
(* t8code: the adaptation driver t8_forest_adapt with its two recursive    *)
(* helpers, run over the quad element scheme (t8_default_scheme_sub_c) and *)
(* the adapt callbacks of example/remove/t8_ring.cxx.                      *)
(*                                                                         *)
(* The model is the build without T8_ENABLE_DEBUG: T8_ASSERT compiles to   *)
(* nothing, so a violated assertion does not stop the pass.  A read of the *)
(* source element array at an index outside [0, num_el_from) is undefined  *)
(* behaviour: it either ends the process (pc = "crashed") or yields an     *)
(* arbitrary element.                                                      *)
(***************************************************************************)
EXTENDS Integers, Sequences, FiniteSets, TLC

(***************************************************************************)
(* Bounds of the model.                                                    *)
(***************************************************************************)
\* Deepest refinement level a key can hold (P4EST_QMAXLEVEL in the library).
QMAXLEVEL == 3
\* A source tree is the root refined at most MaxRefine times.
MaxRefine == 3
\* Source trees handed to the unconstrained callback are cut to this length.
MaxAnyLen == 5

(***************************************************************************)
(* The quad element scheme.                                                *)
(***************************************************************************)
P4EST_CHILDREN == 4

Quad(x, y, l) == [x |-> x, y |-> y, level |-> l]

\* The root element of a tree.
Root == Quad(0, 0, 0)

\* The content of a buffer slot nothing was stored to yet.
Uninit == Quad(-1, -1, -2)

\* P4EST_QUADRANT_LEN (l): the side length of an element of level l.
P4EST_QUADRANT_LEN(l) == 2 ^ (QMAXLEVEL - l)

\* (v & b) != 0, for b a power of two.
BitSet(v, b) == (v \div b) % 2 = 1

\* v | b, for b a power of two.
BitOr(v, b) == IF BitSet(v, b) THEN v ELSE v + b

\* v & ~b, for b a power of two.
BitClear(v, b) == IF BitSet(v, b) THEN v - b ELSE v

t8_element_level(q) == q.level

t8_element_num_children(q) == P4EST_CHILDREN

t8_element_child(q, childid) ==
  LET shift == P4EST_QUADRANT_LEN(q.level + 1)
  IN  Quad(IF childid % 2 = 1 THEN BitOr(q.x, shift) ELSE q.x,
           IF (childid \div 2) % 2 = 1 THEN BitOr(q.y, shift) ELSE q.y,
           q.level + 1)

t8_element_children(q) ==
  [i \in 1..P4EST_CHILDREN |-> t8_element_child(q, i - 1)]

t8_element_parent(q) ==
  Quad(BitClear(q.x, P4EST_QUADRANT_LEN(q.level)),
       BitClear(q.y, P4EST_QUADRANT_LEN(q.level)),
       q.level - 1)

t8_element_child_id(q) ==
  IF q.level <= 0 THEN 0
  ELSE (IF BitSet(q.x, P4EST_QUADRANT_LEN(q.level)) THEN 1 ELSE 0)
       + (IF BitSet(q.y, P4EST_QUADRANT_LEN(q.level)) THEN 2 ELSE 0)

\* The highest bit position in which a and b differ, -1 if they are equal.
RECURSIVE HighestDiff(_, _, _)
HighestDiff(a, b, k) ==
  IF k < 0 THEN -1
  ELSE IF BitSet(a, 2 ^ k) # BitSet(b, 2 ^ k) THEN k
  ELSE HighestDiff(a, b, k - 1)

\* Morton order of the anchors, then the level: negative, zero or positive.
t8_element_compare(q, r) ==
  LET dx == HighestDiff(q.x, r.x, QMAXLEVEL)
      dy == HighestDiff(q.y, r.y, QMAXLEVEL)
  IN  IF dx = -1 /\ dy = -1 THEN q.level - r.level
      ELSE IF dy >= dx THEN (IF q.y < r.y THEN -1 ELSE 1)
      ELSE (IF q.x < r.x THEN -1 ELSE 1)

t8_element_is_family(fam) ==
  LET level == fam[1].level
      inc == P4EST_QUADRANT_LEN(level)
  IN  /\ level # 0
      /\ level = fam[2].level /\ level = fam[3].level /\ level = fam[4].level
      /\ fam[1].x + inc = fam[2].x /\ fam[1].y = fam[2].y
      /\ fam[1].x = fam[3].x /\ fam[1].y + inc = fam[3].y
      /\ fam[2].x = fam[4].x /\ fam[3].y = fam[4].y

(***************************************************************************)
(* Source forests.                                                         *)
(***************************************************************************)
\* The element array s with its i-th element replaced by its children.
RefineAt(s, i) ==
  SubSeq(s, 1, i - 1) \o t8_element_children(s[i]) \o SubSeq(s, i + 1, Len(s))

\* The element arrays of a tree after exactly n refinements of one element.
RECURSIVE TreesOf(_)
TreesOf(n) ==
  IF n = 0 THEN {<<Root>>}
  ELSE {RefineAt(s, i) : <<s, i>> \in
          {<<s, i>> \in TreesOf(n - 1) \X (1..(3 * n)) :
             i <= Len(s) /\ s[i].level < QMAXLEVEL}}

\* t8_forest_new_uniform: every element refined, level times.
RECURSIVE RefineAll(_)
RefineAll(s) ==
  IF s = <<>> THEN <<>>
  ELSE t8_element_children(Head(s)) \o RefineAll(Tail(s))

RECURSIVE Uniform(_)
Uniform(level) == IF level = 0 THEN <<Root>> ELSE RefineAll(Uniform(level - 1))

Trees == UNION {TreesOf(n) : n \in 0..MaxRefine}

\* The first n elements of s (the rest was removed by an earlier pass).
Prefix(s, n) == SubSeq(s, 1, IF Len(s) < n THEN Len(s) ELSE n)

AnyTrees == {Prefix(s, MaxAnyLen) : s \in TreesOf(0) \cup TreesOf(1)}

(***************************************************************************)
(* The adapt callbacks.                                                    *)
(***************************************************************************)
\* What a callback may return when it is handed num elements:
\*   "any"     any callback of the interface,
\*   "keep"    always 0,
\*   "refine"  t8_adapt_callback_refine inside its radius,
\*   "remove"  t8_adapt_callback_remove,
\*   "coarse"  t8_adapt_callback_coarse.
AdaptFn(fn, num) ==
  CASE fn = "any" -> {-2, -1, 0, 1, 2}
    [] fn = "keep" -> {0}
    [] fn = "refine" -> {1}
    [] fn = "remove" -> {-2, 0}
    [] fn = "coarse" -> IF num > 1 THEN {-1} ELSE {0}

\* t8_adapt_callback_refine with adapt_data = {{3/16, 3/16, 0}, radius +
\* with_ring = sqrt(3)/16} on the unit square: 1 when the centroid of
\* elements[0] is closer to the midpoint than the radius. Lengths are in
\* sixteenths of the edge of the tree, distances are compared by their squares.
t8_adapt_callback_refine(elements) ==
  LET u == P4EST_QUADRANT_LEN(0) \div 8
      dx == 2 * elements[1].x + P4EST_QUADRANT_LEN(elements[1].level) - 3 * u
      dy == 2 * elements[1].y + P4EST_QUADRANT_LEN(elements[1].level) - 3 * u
  IN  IF dx * dx + dy * dy < 3 * u * u THEN 1 ELSE 0

\* What forest->set_adapt_fn may return for the elements it is handed:
\*   "refine_near"     t8_adapt_callback_refine with the adapt_data above,
\*   "near_or_coarse"  a callback that refines like t8_adapt_callback_refine
\*                     and, away from the midpoint, keeps or coarsens what it
\*                     is handed more than one element of,
\*   and the callbacks of AdaptFn.
Callback(fn, num, elements) ==
  CASE fn = "refine_near" -> {t8_adapt_callback_refine(elements)}
    [] fn = "near_or_coarse" ->
         IF t8_adapt_callback_refine(elements) = 1 THEN {1}
         ELSE IF num > 1 THEN {-1, 0}
         ELSE {0}
    [] OTHER -> AdaptFn(fn, num)

\* The uniform level-1 tree with its children 1 and 2 refined.
TwoFamilies == RefineAt(RefineAt(Uniform(1), 3), 2)

\* The successive t8_forest_new_adapt calls of a program.
Programs ==
  {<<"keep">>, <<"coarse">>, <<"refine">>, <<"refine", "coarse">>}

\* Recursive refinement under the unconstrained callback is kept small: at most
\* one element of s can be refined, and by one level only.
SmallRecursion(s, m) ==
  /\ Cardinality({i \in 1..Len(s) : s[i].level < m}) <= 1
  /\ \A i \in 1..Len(s) : s[i].level >= m - 1

Scenarios ==
  {[fns |-> <<"any">>, forest |-> <<s>>, recursive |-> FALSE, maxlevel |-> m] :
     s \in AnyTrees, m \in {1, 2}}
  \cup
  {[fns |-> <<"any">>, forest |-> <<sm[1]>>, recursive |-> TRUE,
    maxlevel |-> sm[2]] :
     sm \in {x \in AnyTrees \X {1, 2} : SmallRecursion(x[1], x[2])}}
  \cup
  {[fns |-> p, forest |-> <<s>>, recursive |-> r, maxlevel |-> m] :
     p \in Programs, s \in Trees \cup {Uniform(2)}, r \in BOOLEAN,
     m \in {2, QMAXLEVEL}}
  \cup
  {[fns |-> <<"remove">>, forest |-> <<s, t>>, recursive |-> FALSE,
    maxlevel |-> QMAXLEVEL] : s \in TreesOf(1), t \in TreesOf(0) \cup TreesOf(1)}
  \cup
  {[fns |-> <<"refine_near">>, forest |-> <<Uniform(1)>>, recursive |-> r,
    maxlevel |-> m] : r \in BOOLEAN, m \in {2, QMAXLEVEL}}
  \cup
  {[fns |-> <<"near_or_coarse">>, forest |-> <<TwoFamilies>>, recursive |-> TRUE,
    maxlevel |-> m] : m \in {2, QMAXLEVEL}}

(***************************************************************************)
(* State.                                                                  *)
(***************************************************************************)
VARIABLES
  pc,                  \* where the program stands
  fns,                 \* the callbacks of the passes still to run, current first
  set_adapt_recursive, \* forest->set_adapt_recursive
  maxlevel,            \* forest->maxlevel
  forest_from,         \* the element array of every tree of forest->set_from
  telements,           \* the element array of every tree of forest
  elements_offset,     \* tree->elements_offset of every tree of forest
  local_num_elements,  \* forest->local_num_elements
  el_offset,
  ltree_id,
  el_considered,
  el_inserted,
  el_coarsen,
  elements_from,       \* the buffer for a family of old elements
  num_elements,
  num_elements_real,
  is_family,
  refine,
  refine_list,
  pos,                 \* pos of t8_forest_adapt_coarsen_recursive
  called,              \* the last callback invocation: who, count, elements, result
  program,             \* every callback of the program, in the order of the passes
  source,              \* the forest the program started from
  oob,                 \* the current iteration read outside the source array
  removed,             \* the <<tree, index>> the scan loop got the answer -2 for
  ppath,               \* the child indices from the root pyramid to the key k
  pcall,               \* the last call of the pyramid codec: function, arguments, result
  gcall                \* the last call of t8_geometry_squared_disk::t8_geom_evaluate

vars ==
  <<pc, fns, set_adapt_recursive, maxlevel, forest_from, telements,
    elements_offset, local_num_elements, el_offset, ltree_id, el_considered,
    el_inserted, el_coarsen, elements_from, num_elements, num_elements_real,
    is_family, refine, refine_list, pos, called, program, source, oob,
    removed, ppath, pcall, gcall>>

\* The state of the adaptation driver, and the state of the pyramid codec.
driver ==
  <<pc, fns, set_adapt_recursive, maxlevel, forest_from, telements,
    elements_offset, local_num_elements, el_offset, ltree_id, el_considered,
    el_inserted, el_coarsen, elements_from, num_elements, num_elements_real,
    is_family, refine, refine_list, pos, called, program, source, oob,
    removed>>

pyramid == <<ppath, pcall>>

NoGeometryCall == [fn |-> "none"]

\* No call of the pyramid codec was made.
NoPyramidCall == [fn |-> "none", args |-> <<>>, result |-> <<>>, status |-> "ok"]

config == <<fns, set_adapt_recursive, maxlevel, forest_from, program, source>>

num_trees == Len(forest_from)

\* telements_from and telements of the current tree
telements_from == forest_from[ltree_id + 1]

tel == telements[ltree_id + 1]

num_el_from == Len(telements_from)

set_adapt_fn == Head(fns)

NoCall ==
  [by |-> "none", num |-> 0, lelement_id |-> -1, elements |-> <<>>, ret |-> 0]

\* The state at the head of the loop over the trees, for the first tree.
StartPass(sc) ==
  /\ fns = sc.fns
  /\ program = sc.fns
  /\ source = sc.forest
  /\ set_adapt_recursive = sc.recursive
  /\ maxlevel = sc.maxlevel
  /\ forest_from = sc.forest
  /\ telements = [t \in 1..Len(sc.forest) |-> <<>>]
  /\ elements_offset = [t \in 1..Len(sc.forest) |-> 0]
  /\ local_num_elements = 0
  /\ el_offset = 0
  /\ ltree_id = 0
  /\ el_considered = 0
  /\ el_inserted = 0
  /\ el_coarsen = 0
  /\ elements_from = [z \in 1..P4EST_CHILDREN |-> Uninit]
  /\ num_elements = 0
  /\ num_elements_real = 0
  /\ is_family = FALSE
  /\ refine = 0
  /\ refine_list = <<>>
  /\ pos = 0
  /\ called = NoCall
  /\ oob = FALSE
  /\ removed = {}
  /\ pc = "scan"

Init ==
  /\ \E sc \in Scenarios : StartPass(sc)
  /\ ppath = <<>>
  /\ pcall = NoPyramidCall
  /\ gcall = NoGeometryCall


(***************************************************************************)
(* t8_forest_adapt: one iteration of the loop over the elements of a tree. *)
(***************************************************************************)
Min(a, b) == IF a < b THEN a ELSE b

\* zz after the load loop: the number of elements loaded into elements_from.
Loaded(src, considered) == Min(P4EST_CHILDREN, Len(src) - considered)

\* elements_from after the load loop; the slots from zz on keep their content.
LoadElementsFrom(buf, src, considered) ==
  [z \in 1..P4EST_CHILDREN |->
     IF z <= Loaded(src, considered) THEN src[considered + z] ELSE buf[z]]

\* el_c: the index of the considered element in elements_from_copy.
ElC(src, considered) == P4EST_CHILDREN - Loaded(src, considered)

\* The index into the source array that elements_from_copy[z] is read from.
CopyIndex(src, considered, z) == considered + z - ElC(src, considered)

\* The slots z of elements_from_copy read from inside the source array.
InsideSlots(src, considered) ==
  {z \in 0..(P4EST_CHILDREN - 1) :
     /\ CopyIndex(src, considered, z) >= 0
     /\ CopyIndex(src, considered, z) < Len(src)}

\* The slots z of elements_from_copy read from outside the source array.
OutsideSlots(src, considered) ==
  (0..(P4EST_CHILDREN - 1)) \ InsideSlots(src, considered)

\* The element read into elements_from_copy[z], for z an inside slot.
ElementsFromCopy(src, considered, z) == src[CopyIndex(src, considered, z) + 1]

\* The ancestor the loop "while (level > level_c - 1)" stops at.
RECURSIVE AncestorAbove(_, _)
AncestorAbove(q, level_c) ==
  IF q.level > level_c - 1 THEN AncestorAbove(t8_element_parent(q), level_c)
  ELSE q

\* num_elements_real as far as the inside slots decide it: the slots whose
\* parent compares equal to the parent of the considered element.
NumElementsReal(src, considered) ==
  LET parent_current == t8_element_parent(src[considered + 1])
  IN  Cardinality({z \in InsideSlots(src, considered) :
        t8_element_compare(parent_current,
          t8_element_parent(ElementsFromCopy(src, considered, z))) = 0})

\* An element of an inside slot is "eaten": it is deeper than the considered
\* element and lies below the parent of the considered element.
Eaten(src, considered) ==
  LET level_c == src[considered + 1].level
      parent_current == t8_element_parent(src[considered + 1])
  IN  \E z \in InsideSlots(src, considered) :
        LET e == ElementsFromCopy(src, considered, z)
        IN  /\ e.level > level_c
            /\ t8_element_compare(AncestorAbove(e, level_c), parent_current) = 0

\* What the reads outside the source array can lead to: the process ends, or
\* the elements read compare in any way (real of them count as siblings,
\* eaten says whether one of them counts as eaten).
Outcomes(outside) ==
  IF outside = {} THEN {[crash |-> FALSE, real |-> 0, eaten |-> FALSE]}
  ELSE {[crash |-> TRUE, real |-> 0, eaten |-> FALSE]}
       \cup {[crash |-> FALSE, real |-> n, eaten |-> e] :
               n \in 0..Cardinality(outside), e \in BOOLEAN}

\* The last num_children elements of an array, from index p (counted from 0).
Fam(array, p) == SubSeq(array, p + 1, p + P4EST_CHILDREN)

\* A loop condition that does not stop at el_coarsen.
CoarsenAnyFamily(array, p, coarsen) ==
  /\ p >= 0
  /\ t8_element_is_family(Fam(array, p))

\* t8_forest_adapt_coarsen_recursive: the loop condition and the family test,
\* that is, whether the callback is asked about the elements from p on.
CoarsenCandidate(array, p, coarsen) ==
  /\ p >= coarsen
  /\ t8_element_is_family(Fam(array, p))

\* The last element inserted is the last child of its family and not the only one.
LastOfFamily(q) ==
  /\ t8_element_child_id(q) > 0
  /\ t8_element_child_id(q) = P4EST_CHILDREN - 1

\* The clamp of a refinement request at forest->maxlevel.
Clamp(r, q, max) == IF r > 0 /\ t8_element_level(q) >= max THEN 0 ELSE r

SetTel(array) == [telements EXCEPT ![ltree_id + 1] = array]

\* A scan loop that computes the parent of the considered element in place.
SourceParentInPlace(src, considered) ==
  [src EXCEPT ![considered + 1] = t8_element_parent(@)]

\* A scan loop that skips a whole family when one element is removed.
AfterRemoveFamily(considered) == considered + P4EST_CHILDREN

\* An offset that counts the old elements of the tree instead of the new ones.
NextOffsetConsidered(offset, inserted) == offset + el_considered

\* The source array after an iteration of the scan loop: the parents and
\* ancestors are computed into element_parent_current and
\* element_parent_compare, the new elements into telements, and the elements
\* of telements_from are only read.
SourceAfterIteration(src, considered) == src

\* el_considered after the callback asked for the removal of the element.
AfterRemove(considered) == considered + 1

\* el_offset after a tree with inserted new elements.
NextOffset(offset, inserted) == offset + inserted

\* A work list that takes the children of el at its end.
AppendChildren(list, el) == list \o t8_element_children(el)

\* The loop "for (ci = num_children - 1; ci >= 0; ci--) sc_list_prepend": the
\* children of el in front of the list, the child 0 first.
PrependChildren(list, el) == t8_element_children(el) \o list

ScanStep ==
  /\ pc = "scan"
  /\ el_considered < num_el_from
  /\ UNCHANGED <<pyramid, gcall>>
  /\ LET src == telements_from
         zz == Loaded(src, el_considered)
         buf == LoadElementsFrom(elements_from, src, el_considered)
         fam == zz = P4EST_CHILDREN /\ t8_element_is_family(buf)
         outside == IF fam THEN {} ELSE OutsideSlots(src, el_considered)
     IN  \E ub \in Outcomes(outside) :
           IF ub.crash
           THEN /\ pc' = "crashed"
                /\ oob' = TRUE
                /\ elements_from' = buf
                /\ UNCHANGED <<config, telements, elements_offset,
                               local_num_elements, el_offset, ltree_id,
                               el_considered, el_inserted, el_coarsen,
                               num_elements, num_elements_real, is_family,
                               refine, refine_list, pos, called, removed>>
           ELSE
             LET num == IF fam THEN P4EST_CHILDREN
                        ELSE IF Eaten(src, el_considered) \/ ub.eaten THEN 1
                        ELSE P4EST_CHILDREN
                 real == IF fam THEN P4EST_CHILDREN
                         ELSE NumElementsReal(src, el_considered) + ub.real
             IN  \E r \in Callback(set_adapt_fn, num, buf) :
                   LET rf == Clamp(r, buf[1], maxlevel)
                       kept == Append(tel, buf[1])
                   IN
                   /\ elements_from' = buf
                   /\ is_family' = fam
                   /\ num_elements' = num
                   /\ num_elements_real' = real
                   /\ oob' = (outside # {})
                   /\ called' = [by |-> "scan", num |-> num,
                                 lelement_id |-> el_considered, elements |-> buf,
                                 ret |-> r]
                   /\ refine' = rf
                   /\ forest_from' =
                        [forest_from EXCEPT ![ltree_id + 1] =
                           SourceAfterIteration(src, el_considered)]
                   /\ removed' = IF rf = -2
                                 THEN removed \cup {<<ltree_id, el_considered>>}
                                 ELSE removed
                   /\ UNCHANGED <<fns, set_adapt_recursive, maxlevel, program,
                                  source, elements_offset, local_num_elements,
                                  el_offset, ltree_id, el_coarsen>>
                   /\ CASE rf = 1 /\ set_adapt_recursive ->
                             /\ refine_list' = PrependChildren(refine_list, buf[1])
                             /\ pc' = "refine_recursive"
                             /\ UNCHANGED <<telements, el_inserted,
                                            el_considered, pos>>
                        [] rf = 1 /\ ~set_adapt_recursive ->
                             /\ telements' = SetTel(tel \o t8_element_children(buf[1]))
                             /\ el_inserted' = el_inserted + P4EST_CHILDREN
                             /\ el_considered' = el_considered + 1
                             /\ pc' = "scan"
                             /\ UNCHANGED <<refine_list, pos>>
                        [] rf = -1 ->
                             /\ telements' = SetTel(Append(tel, t8_element_parent(buf[1])))
                             /\ el_inserted' = el_inserted + 1
                             /\ el_considered' = el_considered + real
                             /\ pc' = "scan"
                             /\ UNCHANGED <<refine_list, pos>>
                        [] rf = 0 ->
                             /\ telements' = SetTel(kept)
                             /\ el_inserted' = el_inserted + 1
                             /\ refine_list' = refine_list
                             /\ IF /\ set_adapt_recursive
                                   /\ LastOfFamily(buf[1])
                                   /\ CoarsenCandidate(kept, el_inserted + 1 - P4EST_CHILDREN,
                                                       el_coarsen)
                                THEN /\ pos' = el_inserted + 1 - P4EST_CHILDREN
                                     /\ pc' = "coarsen_recursive"
                                     /\ el_considered' = el_considered
                                ELSE /\ pos' = pos
                                     /\ pc' = "scan"
                                     /\ el_considered' = el_considered + 1
                        [] rf = -2 ->
                             /\ el_considered' = AfterRemove(el_considered)
                             /\ pc' = "scan"
                             /\ UNCHANGED <<telements, el_inserted, refine_list, pos>>
                        [] OTHER ->
                             /\ pc' = "scan"
                             /\ UNCHANGED <<telements, el_inserted, el_considered,
                                            refine_list, pos>>

(***************************************************************************)
(* t8_forest_adapt_refine_recursive: one iteration of its loop, and, when  *)
(* the list is empty, the return to the scan loop.                         *)
(***************************************************************************)
RefineRecursiveStep ==
  /\ pc = "refine_recursive"
  /\ refine_list # <<>>
  /\ UNCHANGED <<pyramid, gcall>>
  /\ \E r \in Callback(set_adapt_fn, 1, <<Head(refine_list)>>) :
       LET el == Head(refine_list)
           list == IF r > 0
                   THEN IF t8_element_level(el) < maxlevel
                        THEN PrependChildren(Tail(refine_list), el)
                        ELSE Tail(refine_list)
                   ELSE Tail(refine_list)
           inserted == IF r > 0 THEN el_inserted ELSE el_inserted + 1
       IN  /\ called' = [by |-> "refine_recursive", num |-> 1,
                         lelement_id |-> el_considered, elements |-> <<el>>,
                         ret |-> r]
           /\ refine_list' = list
           /\ telements' = IF r > 0 THEN telements ELSE SetTel(Append(tel, el))
           /\ el_inserted' = inserted
           /\ IF list = <<>>
              THEN /\ el_coarsen' = inserted + P4EST_CHILDREN
                   /\ el_considered' = el_considered + 1
                   /\ pc' = "scan"
              ELSE /\ UNCHANGED <<el_coarsen, el_considered>>
                   /\ pc' = "refine_recursive"
           /\ UNCHANGED <<config, elements_offset, local_num_elements, el_offset,
                          ltree_id, elements_from, num_elements,
                          num_elements_real, is_family, refine, pos, oob,
                          removed>>

(***************************************************************************)
(* t8_forest_adapt_coarsen_recursive: the callback on the family from pos  *)
(* on, the coarsening, and the next loop condition.                        *)
(***************************************************************************)
CoarsenRecursiveStep ==
  /\ pc = "coarsen_recursive"
  /\ UNCHANGED <<pyramid, gcall>>
  /\ \E r \in Callback(set_adapt_fn, P4EST_CHILDREN, Fam(tel, pos)) :
       LET fam == Fam(tel, pos)
           coarsened == Append(SubSeq(tel, 1, pos), t8_element_parent(fam[1]))
           next == pos - (P4EST_CHILDREN - 1)
       IN  /\ called' = [by |-> "coarsen_recursive", num |-> P4EST_CHILDREN,
                         lelement_id |-> el_considered, elements |-> fam,
                         ret |-> r]
           /\ IF r < 0
              THEN /\ telements' = SetTel(coarsened)
                   /\ el_inserted' = el_inserted - (P4EST_CHILDREN - 1)
                   /\ pos' = next
                   /\ IF CoarsenCandidate(coarsened, next, el_coarsen)
                      THEN /\ pc' = "coarsen_recursive"
                           /\ el_considered' = el_considered
                      ELSE /\ pc' = "scan"
                           /\ el_considered' = el_considered + 1
              ELSE /\ UNCHANGED <<telements, el_inserted>>
                   /\ pos' = next
                   /\ pc' = "scan"
                   /\ el_considered' = el_considered + 1
           /\ UNCHANGED <<config, elements_offset, local_num_elements, el_offset,
                          ltree_id, el_coarsen, elements_from, num_elements,
                          num_elements_real, is_family, refine, refine_list, oob,
                          removed>>

(***************************************************************************)
(* t8_forest_adapt: the end of the loop over the elements of a tree.       *)
(***************************************************************************)
TreeDone ==
  /\ pc = "scan"
  /\ el_considered >= num_el_from
  /\ UNCHANGED <<pyramid, gcall>>
  /\ elements_offset' = [elements_offset EXCEPT ![ltree_id + 1] = el_offset]
  /\ el_offset' = NextOffset(el_offset, el_inserted)
  /\ local_num_elements' = local_num_elements + el_inserted
  /\ telements' = SetTel(SubSeq(tel, 1, el_inserted))
  /\ IF ltree_id + 1 < num_trees
     THEN /\ ltree_id' = ltree_id + 1
          /\ el_considered' = 0
          /\ el_inserted' = 0
          /\ el_coarsen' = 0
          /\ elements_from' = [z \in 1..P4EST_CHILDREN |-> Uninit]
          /\ pc' = "scan"
     ELSE /\ UNCHANGED <<ltree_id, el_considered, el_inserted, el_coarsen,
                         elements_from>>
          /\ pc' = "adapted"
  /\ UNCHANGED <<config, num_elements, num_elements_real, is_family, refine,
                 refine_list, pos, called, oob, removed>>

(***************************************************************************)
(* main: the next t8_forest_new_adapt, from the forest just adapted.       *)
(***************************************************************************)
NewAdapt ==
  /\ pc = "adapted"
  /\ Len(fns) > 1
  /\ UNCHANGED <<pyramid, gcall>>
  /\ fns' = Tail(fns)
  /\ forest_from' = telements
  /\ telements' = [t \in 1..num_trees |-> <<>>]
  /\ elements_offset' = [t \in 1..num_trees |-> 0]
  /\ local_num_elements' = 0
  /\ el_offset' = 0
  /\ ltree_id' = 0
  /\ el_considered' = 0
  /\ el_inserted' = 0
  /\ el_coarsen' = 0
  /\ elements_from' = [z \in 1..P4EST_CHILDREN |-> Uninit]
  /\ num_elements' = 0
  /\ num_elements_real' = 0
  /\ is_family' = FALSE
  /\ refine' = 0
  /\ refine_list' = <<>>
  /\ pos' = 0
  /\ called' = NoCall
  /\ oob' = FALSE
  /\ removed' = {}
  /\ pc' = "scan"
  /\ UNCHANGED <<set_adapt_recursive, maxlevel, program, source>>

Next ==
  \/ ScanStep
  \/ RefineRecursiveStep
  \/ CoarsenRecursiveStep
  \/ TreeDone
  \/ NewAdapt

Spec == Init /\ [][Next]_vars


(***************************************************************************)
(* Properties of the adaptation driver.                                    *)
(***************************************************************************)
\* Strict ascending space-filling-curve order.
Sorted(array) ==
  \A i \in 1..(Len(array) - 1) : t8_element_compare(array[i], array[i + 1]) < 0

\* t8_forest_adapt has returned from the last pass of the program.
Finished == pc = "adapted" /\ Len(fns) = 1

\* C1: once t8_forest_adapt has processed the trees of a forest whose source
\* arrays are in strict ascending order, every new element array is in strict
\* ascending order, whatever the callback returned, in both modes.
C1_NewArraySorted ==
  (pc = "adapted" /\ \A t \in 1..num_trees : Sorted(forest_from[t]))
    => \A t \in 1..num_trees : Sorted(telements[t])

\* C2: every iteration of the scan loop strictly advances el_considered or
\* enters a recursive refine or coarsen step, whatever the callback returned
\* (stated for the iterations that read inside the source array).
C2_ScanAdvances ==
  [][(pc = "scan" /\ el_considered < num_el_from /\ pc' = "scan" /\ ~oob')
       => el_considered' > el_considered]_vars

\* C3: a pass whose callback always returns 0 completes and leaves, for every
\* tree, a new element array identical to the source array, also for a tree
\* that holds fewer than numChildren elements.
C3_KeepIsIdentity ==
  set_adapt_fn = "keep"
    => /\ pc # "crashed"
       /\ pc = "adapted" => telements = forest_from

\* No element of the forest is at level max.
BelowMaxLevel(forest, max) ==
  \A t \in 1..Len(forest) : \A i \in 1..Len(forest[t]) : forest[t][i].level < max

\* C4: from a source with no element at maxLevel, a one-shot pass refining
\* every element followed by a one-shot pass coarsening every full family
\* completes and yields the original source arrays.
C4_RefineCoarseRoundTrip ==
  (/\ program = <<"refine", "coarse">>
   /\ ~set_adapt_recursive
   /\ BelowMaxLevel(source, maxlevel))
    => /\ pc # "crashed"
       /\ Finished => telements = source

\* An element array with every complete family found by a scan from the left
\* replaced by its parent and every other element copied.
RECURSIVE FamiliesCoarsened(_)
FamiliesCoarsened(s) ==
  IF s = <<>> THEN <<>>
  ELSE IF Len(s) >= P4EST_CHILDREN /\ t8_element_is_family(Fam(s, 0))
       THEN <<t8_element_parent(s[1])>>
            \o FamiliesCoarsened(SubSeq(s, P4EST_CHILDREN + 1, Len(s)))
       ELSE <<s[1]>> \o FamiliesCoarsened(Tail(s))

\* The array holds a complete family next to a coarse sibling of its parent.
HasCoarseNeighbour(s) ==
  \E i \in 1..Len(s) : \E j \in 1..Len(s) :
    /\ i + P4EST_CHILDREN - 1 <= Len(s)
    /\ t8_element_is_family(SubSeq(s, i, i + P4EST_CHILDREN - 1))
    /\ s[j].level = s[i].level - 1
    /\ s[j].level > 0
    /\ t8_element_parent(s[j]) = t8_element_parent(t8_element_parent(s[i]))

\* C5: with the callback that coarsens whenever it is handed more than one
\* element, a one-shot pass over an array holding complete refined families
\* next to coarse siblings replaces exactly the members of each family by
\* their parent and copies every other element unchanged.
C5_OnlyFamiliesCoarsened ==
  (/\ pc = "adapted"
   /\ program = <<"coarse">>
   /\ ~set_adapt_recursive
   /\ HasCoarseNeighbour(source[1]))
    => telements[1] = FamiliesCoarsened(source[1])

\* C6: whenever the scan loop invokes the callback, elementCount is
\* numChildren if the elements at the cursor are a complete family and 1
\* in every other case (stated for the iterations that read inside the
\* source array).
C6_ElementCount ==
  (called.by = "scan" /\ pc # "crashed" /\ ~oob)
    => called.num = (IF is_family THEN P4EST_CHILDREN ELSE 1)


\* A step of the scan loop that invoked the callback and went on.
ScanIteration == pc = "scan" /\ el_considered < num_el_from /\ pc' # "crashed"

\* C7: in one-shot mode, whenever the callback returns a value greater than 0
\* for a candidate below maxLevel, the numChildren children of the candidate
\* are appended in child-index order and the cursor advances by exactly 1
\* (stated for the iterations that read inside the source array).
C7_PositiveRefinesOnce ==
  [][(/\ ScanIteration
      /\ ~oob'
      /\ ~set_adapt_recursive
      /\ called'.ret > 0
      /\ t8_element_level(called'.elements[1]) < maxlevel)
       => /\ tel' = tel \o t8_element_children(called'.elements[1])
          /\ el_considered' = el_considered + 1]_vars

\* C8: whenever the callback requests the refinement of an element whose level
\* equals maxLevel, in the scan loop or for an element popped from the work
\* list, that element is appended unchanged to the new array.
C8_MaxLevelKeeps ==
  [][(/\ ScanIteration \/ pc = "refine_recursive"
      /\ called'.by \in {"scan", "refine_recursive"}
      /\ called'.ret > 0
      /\ t8_element_level(called'.elements[1]) = maxlevel)
       => tel' = Append(tel, called'.elements[1])]_vars

\* C9: the recursive pass with the callback that coarsens every full family,
\* over the uniformly refined level-2 tree, yields the level-0 root element.
C9_RecursiveCoarsenToRoot ==
  (/\ pc = "adapted"
   /\ program = <<"coarse">>
   /\ set_adapt_recursive
   /\ source = <<Uniform(2)>>)
    => telements = <<(<<Root>>)>>

\* C10: in recursive mode, when an element is copied unchanged, is the last
\* child of its parent and completes a family at the end of the new array,
\* the callback is asked about that family (and the family is replaced by
\* its parent if the answer is negative).
C10_KeptFamilyIsChecked ==
  [][(/\ ScanIteration
      /\ set_adapt_recursive
      /\ refine' = 0
      /\ LastOfFamily(elements_from'[1])
      /\ Len(tel') >= P4EST_CHILDREN
      /\ t8_element_is_family(Fam(tel', Len(tel') - P4EST_CHILDREN)))
       => pc' = "coarsen_recursive"]_vars

\* The array s without the elements at the indices (counted from 0) in S,
\* from the element i on (counted from 1).
RECURSIVE DeleteAt(_, _, _)
DeleteAt(s, S, i) ==
  IF i > Len(s) THEN <<>>
  ELSE (IF (i - 1) \in S THEN <<>> ELSE <<s[i]>>) \o DeleteAt(s, S, i + 1)

\* The indices of tree t (counted from 1) the callback answered -2 for.
RemovedIn(t) == {i \in 0..Len(source[t]) : <<t - 1, i>> \in removed}

RECURSIVE NumElements(_, _)
NumElements(forest, n) ==
  IF n = 0 THEN 0 ELSE NumElements(forest, n - 1) + Len(forest[n])

\* C13: after t8_forest_adapt, elements_offset of every tree is the number of
\* new elements of the trees before it, local_num_elements is the number of
\* new elements of all trees, and the new array of a tree holds exactly
\* el_inserted elements.
C13_OffsetsAndCounts ==
  /\ pc = "adapted"
       => /\ \A t \in 1..num_trees :
               elements_offset[t] = NumElements(telements, t - 1)
          /\ local_num_elements = NumElements(telements, num_trees)
  /\ pc \in {"scan", "adapted"} => Len(tel) = el_inserted

\* C13, its case: a forest of two trees was adapted and the second tree starts
\* behind fewer elements than the first tree had.
C13_SecondTreeOffset ==
  /\ pc = "adapted"
  /\ num_trees = 2
  /\ elements_offset[2] > 0
  /\ elements_offset[2] < Len(source[1])
  /\ local_num_elements > elements_offset[2]


(***************************************************************************)
(* The pyramid key codec, t8_dpyramid_bits.c.                              *)
(***************************************************************************)
\* Bound: the deepest level of a pyramid key (21 in the library).
T8_DPYRAMID_MAXLEVEL == 3

T8_DPYRAMID_CHILDREN == 10

T8_DTET_NUM_TYPES == 6

T8_DPYRAMID_NUM_TYPES == 8

T8_DPYRAMID_LEN(l) == 2 ^ (T8_DPYRAMID_MAXLEVEL - l)

\* A key: anchor coordinates, type (0..5 tetrahedron, 6 and 7 pyramid), level.
Pyra(x, y, z, t, l) == [x |-> x, y |-> y, z |-> z, type |-> t, level |-> l]

\* The root pyramid, as t8_dpyramid_init_linear_id starts from it.
RootPyramid == Pyra(0, 0, 0, 6, 0)

\* The result of a function of t8_dtet_bits.c: a tetrahedron this model does
\* not compute.
DTet == Pyra(-1, -1, -1, -1, -1)

\* The tables, indexed from 0 in the code and from 1 here.
t8_dpyramid_parenttype_Iloc_to_type ==
  << <<6, 3, 6, 0, 6, 0, 3, 6, 7, 6>>,
     <<7, 0, 3, 6, 7, 3, 7, 0, 7, 7>> >>

t8_dpyramid_parenttype_Iloc_to_cid ==
  << <<0, 1, 1, 2, 2, 3, 3, 3, 3, 7>>,
     <<0, 4, 4, 4, 4, 5, 5, 6, 6, 7>> >>

t8_dpyramid_type_cid_to_Iloc ==
  << <<0, 1, 3, 5, -1, 4, -1, 7>>,
     <<-1, -1, -1, -1, -1, 5, 4, -1>>,
     <<-1, -1, -1, -1, -1, 6, 5, -1>>,
     <<1, 1, -1, 6, -1, -1, 6, 7>>,
     <<-1, 2, 2, -1, -1, -1, -1, -1>>,
     <<-1, 3, 3, -1, -1, -1, -1, -1>>,
     <<0, 2, 4, 7, 1, -1, -1, 9>>,
     <<0, -1, -1, 8, 3, 4, 6, 9>> >>

t8_dpyramid_type_Iloc_to_parenttype ==
  << <<6, 6, 6, 6, 6, 6, 6, 6, 7, 6>>,
     <<7, 7, 7, 7, 7, 7, 7, 7, 6, 7>> >>

\* Row 6 is written {4, 3, 3, 3, 4, 4 -1, 7}: seven initialisers, the sixth
\* being 4 - 1, and the eighth entry zero.
t8_dpyramid_cid_type_to_parenttype ==
  << <<0, 1, 2, 3, 4, 5, 6, 7>>,
     <<0, 1, 1, 1, 0, 0, 6, -1>>,
     <<2, 2, 2, 3, 3, 3, 6, -1>>,
     <<1, 1, 2, 2, 2, 1, 6, 6>>,
     <<5, 5, 4, 4, 4, 5, 7, 7>>,
     <<0, 0, 0, 5, 5, 5, -1, 7>>,
     <<4, 3, 3, 3, 4, 3, 7, 0>>,
     <<0, 1, 2, 3, 4, 5, 6, 7>> >>

\* v & b for b a power of two.
BitAnd(v, b) == IF BitSet(v, b) THEN b ELSE 0

compute_cubeid(p, level) ==
  LET h == T8_DPYRAMID_LEN(level)
  IN  IF level = 0 THEN 0
      ELSE (IF BitSet(p.x, h) THEN 1 ELSE 0)
           + (IF BitSet(p.y, h) THEN 2 ELSE 0)
           + (IF BitSet(p.z, h) THEN 4 ELSE 0)

t8_dpyramid_linear_id(p, level) == 0

t8_dpyramid_compare(p1, p2) ==
  LET maxlvl == IF p1.level > p2.level THEN p1.level ELSE p2.level
      id1 == t8_dpyramid_linear_id(p1, maxlvl)
      id2 == t8_dpyramid_linear_id(p2, maxlvl)
  IN  IF id1 = id2 THEN p1.level - p2.level
      ELSE IF id1 < id2 THEN -1 ELSE 1

\* The loop of t8_dpyramid_init_linear_id from level i on; a tetrahedral child
\* hands the rest over to t8_dtet_init_linear_id_with_level.
RECURSIVE init_linear_id_loop(_, _, _, _)
init_linear_id_loop(p, i, level, id) ==
  IF i > level THEN p
  ELSE LET offset_coords == T8_DPYRAMID_MAXLEVEL - i
           local_index == id % T8_DPYRAMID_CHILDREN
           type == t8_dpyramid_parenttype_Iloc_to_type[p.type - 6 + 1][local_index + 1]
           cid == t8_dpyramid_parenttype_Iloc_to_cid
                    [T8_DPYRAMID_NUM_TYPES - type - 1 + 1][local_index + 1]
       IN  IF 0 <= type /\ type < T8_DTET_NUM_TYPES THEN DTet
           ELSE init_linear_id_loop(
                  Pyra(IF cid % 2 = 1 THEN BitOr(p.x, 2 ^ offset_coords) ELSE p.x,
                       IF cid \in {2, 3, 6, 7} THEN BitOr(p.y, 2 ^ offset_coords)
                       ELSE p.y,
                       IF cid > 3 THEN BitOr(p.z, 2 ^ offset_coords) ELSE p.z,
                       type, level),
                  i + 1, level, id \div T8_DPYRAMID_CHILDREN)

t8_dpyramid_init_linear_id(level, id) ==
  init_linear_id_loop(Pyra(0, 0, 0, 6, level), 1, level, id)

t8_dpyramid_first_descendant(p, level) ==
  IF p.type = 6 \/ p.type = 7 THEN [p EXCEPT !.level = level] ELSE DTet

\* a | b
RECURSIVE BitwiseOr(_, _)
BitwiseOr(a, b) ==
  IF a = 0 THEN b
  ELSE IF b = 0 THEN a
  ELSE 2 * BitwiseOr(a \div 2, b \div 2)
       + (IF a % 2 = 1 \/ b % 2 = 1 THEN 1 ELSE 0)

\* A last descendant shifted by the length of the descendant instead of the
\* difference of the lengths.
last_descendant_by_length(p, level) ==
  IF p.type = 6 \/ p.type = 7
  THEN Pyra(BitwiseOr(p.x, T8_DPYRAMID_LEN(level)),
            BitwiseOr(p.y, T8_DPYRAMID_LEN(level)),
            BitwiseOr(p.z, T8_DPYRAMID_LEN(level)), p.type, level)
  ELSE DTet

t8_dpyramid_last_descendant(p, level) ==
  IF p.type = 6 \/ p.type = 7
  THEN LET coord_offset == T8_DPYRAMID_LEN(p.level) - T8_DPYRAMID_LEN(level)
       IN  Pyra(BitwiseOr(p.x, coord_offset), BitwiseOr(p.y, coord_offset),
                BitwiseOr(p.z, coord_offset), p.type, level)
  ELSE DTet

t8_dpyramid_child_id(p) ==
  t8_dpyramid_type_cid_to_Iloc[p.type + 1][compute_cubeid(p, p.level) + 1]

\* A child placed with the length of its parent.
child_of_parent_length(elem, child_id) ==
  IF elem.type < T8_DTET_NUM_TYPES THEN DTet
  ELSE LET cube_id == t8_dpyramid_parenttype_Iloc_to_cid[elem.type - 6 + 1][child_id + 1]
           h == T8_DPYRAMID_LEN(elem.level)
       IN  Pyra(IF elem.x + BitAnd(cube_id, 1) # 0 THEN h ELSE 0,
                IF elem.y + BitAnd(cube_id, 2) # 0 THEN h ELSE 0,
                IF elem.z + BitAnd(cube_id, 4) # 0 THEN h ELSE 0,
                t8_dpyramid_parenttype_Iloc_to_type[elem.type - 6 + 1][child_id + 1],
                elem.level + 1)

\* "elem->x + (cube_id & 0x01) ? h : 0" is "(elem->x + (cube_id & 0x01)) ? h : 0".
t8_dpyramid_child(elem, child_id) ==
  IF elem.type < T8_DTET_NUM_TYPES THEN DTet
  ELSE LET cube_id == t8_dpyramid_parenttype_Iloc_to_cid[elem.type - 6 + 1][child_id + 1]
           h == T8_DPYRAMID_LEN(elem.level + 1)
       IN  Pyra(IF elem.x + BitAnd(cube_id, 1) # 0 THEN h ELSE 0,
                IF elem.y + BitAnd(cube_id, 2) # 0 THEN h ELSE 0,
                IF elem.z + BitAnd(cube_id, 4) # 0 THEN h ELSE 0,
                t8_dpyramid_parenttype_Iloc_to_type[elem.type - 6 + 1][child_id + 1],
                elem.level + 1)

t8_dpyramid_hit_point(p) ==
  LET h == T8_DPYRAMID_LEN(p.level)
      x == IF ~BitSet(p.x, h) THEN p.x + h ELSE p.x
      y == IF ~BitSet(p.y, h) THEN p.y + h ELSE p.y
  IN  IF p.x = x /\ p.y = y THEN 1
      ELSE IF p.x = x - h /\ p.y = y /\ p.type = 0 THEN 1
      ELSE IF p.y = y - h /\ p.x = x /\ p.type = 3 THEN 1
      ELSE 0

\* The type t8_dpyramid_tetparent_type stores, from the z it reads.
t8_dpyramid_tetparent_type(z, level) ==
  IF ~BitSet(z, T8_DPYRAMID_LEN(level)) THEN 6 ELSE 7

t8_dpyramid_shape(p) == IF p.type < 6 THEN "T8_ECLASS_TET" ELSE "T8_ECLASS_PYRAMID"

\* The types t8_dpyramid_parent can store for a pyramid-shaped p: a child id
\* of -1 reads the table outside its row.
ParentTypes(p) ==
  LET child_id == t8_dpyramid_child_id(p)
  IN  IF child_id >= 0
      THEN {t8_dpyramid_type_Iloc_to_parenttype[p.type - 6 + 1][child_id + 1]}
      ELSE 0..(T8_DPYRAMID_NUM_TYPES - 1)

\* The keys t8_dpyramid_parent (p, parent) can store; aliased says that p and
\* parent are the same object, as in t8_dpyramid_succesor, so that
\* t8_dpyramid_tetparent_type reads the z already written.
ParentOutcomes(p, aliased) ==
  LET h == T8_DPYRAMID_LEN(p.level)
      x == BitClear(p.x, h)
      y == BitClear(p.y, h)
      z == BitClear(p.z, h)
  IN  IF t8_dpyramid_shape(p) = "T8_ECLASS_PYRAMID"
      THEN {Pyra(x, y, z, t, p.level - 1) : t \in ParentTypes(p)}
      ELSE IF p.type # 0 /\ p.type # 3 THEN {DTet}
      ELSE IF t8_dpyramid_hit_point(p) = 0 THEN {DTet}
      ELSE {Pyra(x, y, z,
                 t8_dpyramid_tetparent_type(IF aliased THEN z ELSE p.z, p.level),
                 p.level - 1)}

t8_dpyramid_parent(p) == ParentOutcomes(p, FALSE)

\* The loop of compute_type from level i down to level + 1.
RECURSIVE compute_type_loop(_, _, _, _)
compute_type_loop(p, type, i, level) ==
  IF i <= level \/ type < 0 THEN type
  ELSE compute_type_loop(p,
         t8_dpyramid_cid_type_to_parenttype[compute_cubeid(p, i) + 1][type + 1],
         i - 1, level)

compute_type(p, level) ==
  IF level = p.level THEN p.type
  ELSE IF level = 0 THEN 0
  ELSE compute_type_loop(p, p.type, p.level, level)

\* t8_dpyramid_succesor (elem, succ, level): the key stored in succ, or the
\* assertion that fails, or the call into t8_dtet_bits.c the result rests on.
RECURSIVE t8_dpyramid_succesor(_, _)
t8_dpyramid_succesor(elem, level) ==
  LET Ended(how) == [status |-> how, key |-> DTet]
      succ == [elem EXCEPT !.type = compute_type(elem, level), !.level = level]
      pyramid_child_id == t8_dpyramid_child_id(succ)
      shift == 2 ^ (T8_DPYRAMID_MAXLEVEL - level + 1)
  IN  IF ~(1 <= level /\ level <= T8_DPYRAMID_MAXLEVEL) THEN Ended("assert")
      ELSE IF succ.type < 0 THEN Ended("assert")
      ELSE IF ~(0 <= pyramid_child_id /\ pyramid_child_id < T8_DPYRAMID_CHILDREN)
      THEN Ended("assert")
      ELSE IF pyramid_child_id = T8_DPYRAMID_CHILDREN - 1
      THEN LET r == t8_dpyramid_succesor(elem, level - 1)
           IN  IF r.status # "ok" THEN r
               ELSE [status |-> "ok",
                     key |-> Pyra((r.key.x \div shift) * shift,
                                  (r.key.y \div shift) * shift,
                                  (r.key.z \div shift) * shift,
                                  r.key.type, level)]
      ELSE LET parent == CHOOSE q \in ParentOutcomes(succ, TRUE) : TRUE
               child == IF parent = DTet THEN DTet
                        ELSE t8_dpyramid_child(parent, pyramid_child_id + 1)
           IN  IF child = DTet THEN Ended("dtet")
               ELSE [status |-> "ok", key |-> child]


(***************************************************************************)
(* The keys the codec is called with, and the calls.                       *)
(***************************************************************************)
\* Bound: the deepest level t8_dpyramid_init_linear_id is called with.
MaxIdLevel == 2

\* The child i of the pyramid k as the refinement defines it: one level
\* deeper, the type of the (type, child index) table, and on each axis the
\* coordinate of k, plus the length of the child where the bit of the child's
\* cube id is set.
ExpectedChild(k, i) ==
  LET cid == t8_dpyramid_parenttype_Iloc_to_cid[k.type - 6 + 1][i + 1]
      h == T8_DPYRAMID_LEN(k.level + 1)
  IN  Pyra(k.x + (IF BitAnd(cid, 1) # 0 THEN h ELSE 0),
           k.y + (IF BitAnd(cid, 2) # 0 THEN h ELSE 0),
           k.z + (IF BitAnd(cid, 4) # 0 THEN h ELSE 0),
           t8_dpyramid_parenttype_Iloc_to_type[k.type - 6 + 1][i + 1],
           k.level + 1)

\* The key at the end of a path of child indices from the root pyramid.
RECURSIVE KeyOf(_)
KeyOf(path) ==
  IF path = <<>> THEN RootPyramid
  ELSE ExpectedChild(KeyOf(SubSeq(path, 1, Len(path) - 1)), path[Len(path)])

\* The paths of length n that lead through pyramids to a pyramid.
RECURSIVE PyramidPaths(_)
PyramidPaths(n) ==
  IF n = 0 THEN {<<>>}
  ELSE {Append(q, i) : q \in PyramidPaths(n - 1), i \in 0..(T8_DPYRAMID_CHILDREN - 1)}
       \cap {q \in Seq(0..(T8_DPYRAMID_CHILDREN - 1)) : KeyOf(q).type >= 6}

\* The number of pyramids, of tetrahedra and of elements of the uniform
\* refinement of the root pyramid to level l.
RECURSIVE NumPyramids(_)
NumPyramids(l) == IF l = 0 THEN 1 ELSE 6 * NumPyramids(l - 1)

RECURSIVE NumTets(_)
NumTets(l) == IF l = 0 THEN 0 ELSE 4 * NumPyramids(l - 1) + 8 * NumTets(l - 1)

NumLevelElements(l) == NumPyramids(l) + NumTets(l)

\* The key k the codec is called with.
k == KeyOf(ppath)

\* The driver at rest while the codec is exercised.
DriverIdle ==
  /\ pc = "pyramid"
  /\ fns = <<>>
  /\ program = <<>>
  /\ source = <<>>
  /\ set_adapt_recursive = FALSE
  /\ maxlevel = 0
  /\ forest_from = <<>>
  /\ telements = <<>>
  /\ elements_offset = <<>>
  /\ local_num_elements = 0
  /\ el_offset = 0
  /\ ltree_id = 0
  /\ el_considered = 0
  /\ el_inserted = 0
  /\ el_coarsen = 0
  /\ elements_from = <<>>
  /\ num_elements = 0
  /\ num_elements_real = 0
  /\ is_family = FALSE
  /\ refine = 0
  /\ refine_list = <<>>
  /\ pos = 0
  /\ called = NoCall
  /\ oob = FALSE
  /\ removed = {}

PyramidInit ==
  /\ DriverIdle
  /\ ppath \in UNION {PyramidPaths(n) : n \in 0..(T8_DPYRAMID_MAXLEVEL - 1)}
  /\ pcall = NoPyramidCall
  /\ gcall = NoGeometryCall

\* A call that does not take up the result of the call before it is the first
\* call of a run.
FirstCall == pcall.fn = "none"

PyramidCalls(fn, args, result, status) ==
  /\ pcall' = [fn |-> fn, args |-> args, result |-> result, status |-> status]
  /\ UNCHANGED <<driver, ppath, gcall>>

Child ==
  /\ FirstCall
  /\ \E i \in 0..(T8_DPYRAMID_CHILDREN - 1) :
    PyramidCalls("t8_dpyramid_child", [elem |-> k, child_id |-> i],
                 t8_dpyramid_child(k, i), "ok")

\* t8_dpyramid_parent of the child just computed.
Parent ==
  /\ pcall.fn = "t8_dpyramid_child"
  /\ \E parent \in t8_dpyramid_parent(pcall.result) :
       PyramidCalls("t8_dpyramid_parent",
                    [p |-> pcall.result, child_id |-> pcall.args.child_id],
                    parent, "ok")

\* t8_dpyramid_child_id of the child just computed.
ChildId ==
  /\ pcall.fn = "t8_dpyramid_child"
  /\ PyramidCalls("t8_dpyramid_child_id",
                  [p |-> pcall.result, child_id |-> pcall.args.child_id],
                  t8_dpyramid_child_id(pcall.result), "ok")

LinearId ==
  /\ FirstCall
  /\ \E level \in 0..k.level :
    PyramidCalls("t8_dpyramid_linear_id", [p |-> k, level |-> level],
                 t8_dpyramid_linear_id(k, level), "ok")

\* t8_dpyramid_init_linear_id of the id just computed, at its level.
FromLinearId ==
  /\ pcall.fn = "t8_dpyramid_linear_id"
  /\ PyramidCalls("t8_dpyramid_init_linear_id",
                  [level |-> pcall.args.level, id |-> pcall.result, of |-> "k"],
                  t8_dpyramid_init_linear_id(pcall.args.level, pcall.result), "ok")

InitLinearId ==
  /\ FirstCall
  /\ ppath = <<>>
  /\ \E level \in 0..MaxIdLevel :
       \E id \in 0..(T8_DPYRAMID_CHILDREN ^ level - 1) :
         PyramidCalls("t8_dpyramid_init_linear_id",
                      [level |-> level, id |-> id, of |-> "id"],
                      t8_dpyramid_init_linear_id(level, id), "ok")

Compare ==
  /\ FirstCall
  /\ \E i \in 0..(T8_DPYRAMID_CHILDREN - 1) :
    \E j \in 0..(T8_DPYRAMID_CHILDREN - 1) :
      PyramidCalls("t8_dpyramid_compare",
                   [p1 |-> t8_dpyramid_child(k, i), p2 |-> t8_dpyramid_child(k, j),
                    i |-> i, j |-> j],
                   t8_dpyramid_compare(t8_dpyramid_child(k, i),
                                       t8_dpyramid_child(k, j)), "ok")

FirstDescendant ==
  /\ FirstCall
  /\ ppath = <<>>
  /\ \E level \in 1..T8_DPYRAMID_MAXLEVEL :
       PyramidCalls("t8_dpyramid_first_descendant",
                    [p |-> k, level |-> level, visited |-> 1],
                    t8_dpyramid_first_descendant(k, level), "ok")

\* t8_dpyramid_succesor of the element the walk over a level stands at.
Succesor ==
  /\ pcall.fn \in {"t8_dpyramid_first_descendant", "t8_dpyramid_succesor"}
  /\ pcall.status = "ok"
  /\ pcall.args.visited < NumLevelElements(pcall.args.level)
  /\ LET r == t8_dpyramid_succesor(pcall.result, pcall.args.level)
     IN  PyramidCalls("t8_dpyramid_succesor",
                      [p |-> pcall.result, level |-> pcall.args.level,
                       visited |-> pcall.args.visited + 1],
                      r.key, r.status)

\* t8_dpyramid_parent of the key k.
ParentOfKey ==
  /\ FirstCall
  /\ ppath # <<>>
  /\ \E parent \in t8_dpyramid_parent(k) :
       PyramidCalls("t8_dpyramid_parent", [p |-> k, path |-> ppath], parent, "ok")

\* t8_dpyramid_first_descendant and t8_dpyramid_last_descendant of the key k.
Descendant ==
  /\ FirstCall
  /\ \E level \in k.level..T8_DPYRAMID_MAXLEVEL :
       PyramidCalls("t8_dpyramid_last_descendant",
                    [p |-> k, level |-> level,
                     first |-> t8_dpyramid_first_descendant(k, level)],
                    t8_dpyramid_last_descendant(k, level), "ok")

PyramidNext ==
  \/ Child
  \/ Descendant
  \/ Parent
  \/ ParentOfKey
  \/ ChildId
  \/ LinearId
  \/ FromLinearId
  \/ InitLinearId
  \/ Compare
  \/ FirstDescendant
  \/ Succesor

PyramidSpec == PyramidInit /\ [][PyramidNext]_vars


(***************************************************************************)
(* Properties of the pyramid codec.                                        *)
(***************************************************************************)
\* C14: for every pyramid-shaped key k below the deepest level and every child
\* index i, t8_dpyramid_parent of t8_dpyramid_child(k, i) is k in coordinates,
\* level and type, for the tetrahedral children too.
C14_ParentOfChild ==
  pcall.fn = "t8_dpyramid_parent" => pcall.result = k

\* C15: for every pyramid-shaped key k and every child index i, the type T and
\* the cube id c the tables give the child i of a parent of the type of k
\* satisfy t8_dpyramid_type_cid_to_Iloc[T][c] = i, and t8_dpyramid_child_id of
\* t8_dpyramid_child(k, i) is i.
C15_ChildIdOfChild ==
  pcall.fn = "t8_dpyramid_child_id"
    => LET i == pcall.args.child_id
           T == t8_dpyramid_parenttype_Iloc_to_type[k.type - 6 + 1][i + 1]
           c == t8_dpyramid_parenttype_Iloc_to_cid[k.type - 6 + 1][i + 1]
       IN  /\ t8_dpyramid_type_cid_to_Iloc[T + 1][c + 1] = i
           /\ pcall.result = i

\* C16: for every pyramid-shaped key k and every child index i,
\* t8_dpyramid_child(k, i) is one level deeper, has the type of the (type,
\* child index) table, and on each axis the coordinate of k plus the length of
\* the child if the bit of the child's cube id is set, the coordinate of k
\* otherwise.
C16_ChildFields ==
  pcall.fn = "t8_dpyramid_child"
    => pcall.result = ExpectedChild(k, pcall.args.child_id)

\* C17: for every pyramid key k and every level l up to the level of k,
\* t8_dpyramid_init_linear_id of l and t8_dpyramid_linear_id(k, l) is the
\* ancestor of k at level l.
C17_LinearIdRoundTrip ==
  (pcall.fn = "t8_dpyramid_init_linear_id" /\ pcall.args.of = "k")
    => pcall.result = KeyOf(SubSeq(ppath, 1, pcall.args.level))

\* The decimal digits of id for a key of the given level, the most significant
\* first.
Digits(id, level) ==
  [j \in 1..level |->
     (id \div (T8_DPYRAMID_CHILDREN ^ (level - j))) % T8_DPYRAMID_CHILDREN]

\* t8_dpyramid_child applied successively from p with the child indices of path.
RECURSIVE ChildrenAlong(_, _)
ChildrenAlong(p, path) ==
  IF path = <<>> THEN p
  ELSE ChildrenAlong(t8_dpyramid_child(p, Head(path)), Tail(path))

\* Every key on the path from the root pyramid is pyramid-shaped.
StaysPyramid(path) ==
  \A n \in 1..Len(path) : ChildrenAlong(RootPyramid, SubSeq(path, 1, n)).type >= 6

\* C18: the key t8_dpyramid_init_linear_id builds for (level, id) is the key
\* that t8_dpyramid_child yields when applied successively from the root with
\* the digits of id, the most significant digit first, along every path that
\* stays pyramid-shaped.
C18_InitLinearIdFollowsChild ==
  (/\ pcall.fn = "t8_dpyramid_init_linear_id"
   /\ pcall.args.of = "id"
   /\ StaysPyramid(Digits(pcall.args.id, pcall.args.level)))
    => pcall.result =
         ChildrenAlong(RootPyramid, Digits(pcall.args.id, pcall.args.level))

Sign(n) == IF n < 0 THEN -1 ELSE IF n > 0 THEN 1 ELSE 0

\* C19: for every pyramid key k below the deepest level and all child indices
\* i and j, t8_dpyramid_compare of the children i and j of k is negative
\* exactly when i < j, zero exactly when i = j, positive exactly when i > j.
C19_CompareOrdersChildren ==
  pcall.fn = "t8_dpyramid_compare"
    => Sign(pcall.result) = Sign(pcall.args.i - pcall.args.j)

\* The number of elements d levels below an element of the given type.
RECURSIVE Pow(_, _)
Pow(b, e) == IF e = 0 THEN 1 ELSE b * Pow(b, e - 1)

Descendants(type, d) == IF type >= 6 THEN NumLevelElements(d) ELSE Pow(8, d)

\* The child of the pyramid p whose descendants at level L hold the element
\* number v (counted from 0) of the descendants of p, and the number of
\* elements of the children before it.
RECURSIVE ChildHolding(_, _, _, _, _)
ChildHolding(p, L, v, i, before) ==
  LET size == Descendants(ExpectedChild(p, i).type, L - p.level - 1)
  IN  IF v < before + size THEN [child_id |-> i, before |-> before]
      ELSE ChildHolding(p, L, v, i + 1, before + size)

\* The element number v (counted from 0) of the descendants of the pyramid p
\* at level L, as far as it lies below pyramids only; DTet where a tetrahedron
\* is on the way.
RECURSIVE ExpectedElement(_, _, _)
ExpectedElement(p, L, v) ==
  IF p.type < 6 THEN DTet
  ELSE IF p.level = L THEN p
  ELSE LET c == ChildHolding(p, L, v, 0, 0)
       IN  ExpectedElement(ExpectedChild(p, c.child_id), L, v - c.before)

\* C20: the walk from the first descendant of the root pyramid at level L by
\* t8_dpyramid_succesor fails no assertion of t8_dpyramid_succesor and visits
\* the elements of level L in ascending order without gap or duplicate: the
\* element number v is the one of the enumeration where that lies below
\* pyramids only, and it lies in the cube of the child of the root whose
\* descendants hold the number v.
C20_SuccesorVisitsLevel ==
  pcall.fn \in {"t8_dpyramid_first_descendant", "t8_dpyramid_succesor"}
    => LET L == pcall.args.level
           v == pcall.args.visited - 1
           expected == ExpectedElement(RootPyramid, L, v)
           first == ChildHolding(RootPyramid, L, v, 0, 0).child_id
       IN  /\ pcall.status # "assert"
           /\ expected # DTet => pcall.result = expected
           /\ pcall.status = "ok"
                => compute_cubeid(pcall.result, 1) =
                     t8_dpyramid_parenttype_Iloc_to_cid[1][first + 1]

\* The linear id of the key at the end of a path through pyramids: the child
\* indices accumulated from the root, id = id * children + child index.
RECURSIVE PathId(_)
PathId(path) ==
  IF path = <<>> THEN 0
  ELSE PathId(SubSeq(path, 1, Len(path) - 1)) * T8_DPYRAMID_CHILDREN
       + path[Len(path)]

\* C21: t8_dpyramid_linear_id and t8_dpyramid_parent never return normally
\* with a wrong result: whenever t8_dpyramid_linear_id returns for a pyramid
\* key k and a level, the id is the one of the ancestor of k at that level (so
\* two different keys of a level never get the same id), and whenever
\* t8_dpyramid_parent returns for a pyramid key k, the key is the parent of k.
C21_NoSilentWrongResult ==
  /\ (pcall.fn = "t8_dpyramid_linear_id" /\ pcall.status = "ok")
       => pcall.result = PathId(SubSeq(ppath, 1, pcall.args.level))
  /\ (/\ pcall.fn = "t8_dpyramid_parent"
      /\ "path" \in DOMAIN pcall.args
      /\ pcall.status = "ok")
       => pcall.result = KeyOf(SubSeq(ppath, 1, Len(ppath) - 1))

\* C22: for every pyramid-shaped key k and every level l from the level of k
\* on, t8_dpyramid_first_descendant(k, l) has the coordinates and the type of
\* k and the level l, and t8_dpyramid_last_descendant(k, l) has the type of k,
\* the level l and on every axis the coordinate of k plus LEN(level(k)) -
\* LEN(l); with l the level of k both are k.
C22_Descendants ==
  pcall.fn = "t8_dpyramid_last_descendant"
    => LET l == pcall.args.level
           d == T8_DPYRAMID_LEN(k.level) - T8_DPYRAMID_LEN(l)
       IN  /\ pcall.args.first = Pyra(k.x, k.y, k.z, k.type, l)
           /\ pcall.result = Pyra(k.x + d, k.y + d, k.z + d, k.type, l)
           /\ l = k.level => pcall.args.first = k /\ pcall.result = k

\* C22, its case: the descendants of a key with a non-zero anchor, two levels
\* below it.
C22_DeepDescendant ==
  /\ pcall.fn = "t8_dpyramid_last_descendant"
  /\ k.x > 0
  /\ pcall.args.level = k.level + 2
  /\ pcall.result.x = k.x + 3 * T8_DPYRAMID_LEN(pcall.args.level)
  /\ pcall.args.first.x = k.x

\* The keys the call just made has stored.
ProducedKeys ==
  IF pcall.status # "ok" THEN {}
  ELSE IF pcall.fn \in {"t8_dpyramid_child", "t8_dpyramid_parent",
                        "t8_dpyramid_init_linear_id",
                        "t8_dpyramid_first_descendant", "t8_dpyramid_succesor"}
  THEN {pcall.result}
  ELSE IF pcall.fn = "t8_dpyramid_last_descendant"
  THEN {pcall.result, pcall.args.first}
  ELSE {}

ValidKey(q) ==
  \A c \in {q.x, q.y, q.z} :
    /\ 0 <= c
    /\ c < 2 ^ T8_DPYRAMID_MAXLEVEL
    /\ c % T8_DPYRAMID_LEN(q.level) = 0

\* C23: every pyramid-shaped key that t8_dpyramid_child, t8_dpyramid_parent,
\* t8_dpyramid_init_linear_id, t8_dpyramid_first_descendant,
\* t8_dpyramid_last_descendant or t8_dpyramid_succesor stores for a key whose
\* coordinates are multiples of its cell size has coordinates in
\* [0, 2^T8_DPYRAMID_MAXLEVEL) that are multiples of the cell size at the
\* level of the stored key.
C23_KeysStayValid ==
  \A q \in ProducedKeys :
    t8_dpyramid_shape(q) = "T8_ECLASS_PYRAMID" => ValidKey(q)

\* C23, its case: t8_dpyramid_succesor has stored a pyramid-shaped key off
\* the origin, two levels below the root.
C23_SuccesorKey ==
  /\ pcall.fn = "t8_dpyramid_succesor"
  /\ pcall.status = "ok"
  /\ t8_dpyramid_shape(pcall.result) = "T8_ECLASS_PYRAMID"
  /\ pcall.result.level = 2
  /\ pcall.result.x > 0


(***************************************************************************)
(* t8_geometry_squared_disk::t8_geom_evaluate on the mesh of five quads.   *)
(* The arithmetic on doubles is left out: a call is its arguments and the  *)
(* branch that computes out_coords.                                        *)
(***************************************************************************)
\* The trees of the mesh t8_geom_evaluate expects: the centre 0 and 1..4.
NumDiskTrees == 5

\* Bound: num_coords is drawn from 0..MaxNumCoords.
MaxNumCoords == 2

\* Bound: the reference coordinates are the multiples of 1/RefSteps in [0, 1].
RefSteps == 4

\* The branch t8_geom_evaluate takes: the abort on a batch, the linear
\* interpolation of the centre square, or the stretching onto the circle.
t8_geom_evaluate(gtreeid, num_coords) ==
  IF num_coords # 1 THEN "SC_ABORT"
  ELSE IF gtreeid % 3 = 0 THEN "linear"
  ELSE "circle"

GeometryInit ==
  /\ DriverIdle
  /\ ppath = <<>>
  /\ pcall = NoPyramidCall
  /\ gcall = NoGeometryCall

Evaluate ==
  /\ gcall.fn = "none"
  /\ \E gtreeid \in 0..(NumDiskTrees - 1), num_coords \in 0..MaxNumCoords,
        x_ref \in 0..RefSteps, y_ref \in 0..RefSteps :
       gcall' = [fn |-> "t8_geom_evaluate", gtreeid |-> gtreeid,
                 num_coords |-> num_coords, ref_coords |-> <<x_ref, y_ref>>,
                 branch |-> t8_geom_evaluate(gtreeid, num_coords)]
  /\ UNCHANGED <<driver, pyramid>>

GeometryNext == Evaluate

GeometrySpec == GeometryInit /\ [][GeometryNext]_vars

\* C24: on the mesh of five quads t8_geom_evaluate maps the tree 0, and no
\* other tree, by the linear interpolation; the trees 1..4 take the branch
\* that stretches onto the circle.
C24_OnlyCentreIsLinear ==
  (gcall.fn = "t8_geom_evaluate" /\ gcall.num_coords = 1)
    => /\ gcall.branch = "linear" <=> gcall.gtreeid = 0
       /\ gcall.gtreeid \in 1..4 => gcall.branch = "circle"


(***************************************************************************)
(* Properties of the scan loop, continued.                                 *)
(***************************************************************************)
\* C25: under t8_adapt_callback_remove and t8_adapt_callback_coarse, on every
\* source array, the condition of T8_ASSERT (is_family || refine >= 0) holds
\* after every callback invocation of the scan loop.
C25_AssertionHolds ==
  (/\ program \in {<<"remove">>, <<"coarse">>}
   /\ called.by = "scan"
   /\ ~oob)
    => (is_family \/ called.ret >= 0)

\* e lies below a in the refinement tree.
Descends(e, a) ==
  /\ e.level > a.level
  /\ e.x - (e.x % P4EST_QUADRANT_LEN(a.level)) = a.x
  /\ e.y - (e.y % P4EST_QUADRANT_LEN(a.level)) = a.y

\* The elements the running or the last call of
\* t8_forest_adapt_refine_recursive has appended: those of the new array
\* below elements_from[0], the element the scan loop refines.
AppendedByCall == SelectSeq(tel, LAMBDA e : Descends(e, elements_from[1]))

\* C26: in recursive mode the elements one call of
\* t8_forest_adapt_refine_recursive appends are in depth-first child-index
\* order: at every moment of the call the appended elements followed by the
\* work list are in strict ascending order (every descendant of a child is
\* appended before anything of the next child), and the work list is empty
\* when the call has returned.
C26_DepthFirstOrder ==
  /\ pc = "refine_recursive"
       => /\ Sorted(AppendedByCall \o refine_list)
          /\ \A i \in 1..Len(refine_list) :
               Descends(refine_list[i], elements_from[1])
  /\ (called.by = "refine_recursive" /\ pc # "refine_recursive")
       => /\ refine_list = <<>>
          /\ Sorted(AppendedByCall)

\* C26, its case: a call has returned that appended the descendants of a
\* child, one level deeper, before the next children.
C26_GrandchildrenFirst ==
  /\ called.by = "refine_recursive"
  /\ pc = "scan"
  /\ ~oob
  /\ Len(AppendedByCall) >= 4
  /\ AppendedByCall[1].level = elements_from[1].level + 2
  /\ AppendedByCall[Len(AppendedByCall)].level = elements_from[1].level + 1

\* C27: in recursive mode no call of t8_forest_adapt_coarsen_recursive
\* removes or replaces an element of the new array at an index below
\* el_coarsen, the index a refinement has set, and el_coarsen never decreases
\* while a tree is processed.
C27_CoarsenKeepsRefined ==
  [][/\ pc = "coarsen_recursive"
          => \A i \in 1..Min(el_coarsen, Len(tel)) :
               /\ i <= Len(telements'[ltree_id + 1])
               /\ telements'[ltree_id + 1][i] = tel[i]
     /\ (ltree_id' = ltree_id /\ fns' = fns) => el_coarsen' >= el_coarsen]_vars

\* C27, its case: after a refinement has set el_coarsen,
\* t8_forest_adapt_coarsen_recursive has replaced a family by its parent.
C27_CoarsenedAfterRefine ==
  /\ called.by = "coarsen_recursive"
  /\ called.ret < 0
  /\ el_coarsen > 0
  /\ Len(tel) = el_coarsen + 1
  /\ ~oob

\* C28: every index at which an iteration of the scan loop reads the source
\* array lies in [0, num_el_from): the indices el_considered + zz of the
\* elements loaded into elements_from and, when these are no family, the
\* indices el_considered + z - el_c of the window elements_from_copy; for
\* source arrays of every length from 1 on.
C28_ReadsInsideSource ==
  (pc = "scan" /\ el_considered < num_el_from)
    => LET src == telements_from
           zz == Loaded(src, el_considered)
           fam == /\ zz = P4EST_CHILDREN
                  /\ t8_element_is_family(
                       LoadElementsFrom(elements_from, src, el_considered))
       IN  /\ \A z \in 0..(zz - 1) :
                0 <= el_considered + z /\ el_considered + z < num_el_from
           /\ ~fam => \A z \in 0..(P4EST_CHILDREN - 1) :
                        /\ 0 <= CopyIndex(src, el_considered, z)
                        /\ CopyIndex(src, el_considered, z) < num_el_from

\* No element of the array is another one or an ancestor of another one.
NoOverlap(array) ==
  \A i \in 1..Len(array) : \A j \in 1..Len(array) :
    i # j => array[i] # array[j] /\ ~Descends(array[j], array[i])

\* C29: under a callback that coarsens whenever it is handed more than one
\* element, a forest whose source arrays hold no two overlapping elements is
\* adapted to new arrays that hold no two overlapping elements.
C29_NoOverlapPreserved ==
  (/\ program = <<"coarse">>
   /\ pc = "adapted"
   /\ ~oob
   /\ \A t \in 1..num_trees : NoOverlap(forest_from[t]))
    => \A t \in 1..num_trees : NoOverlap(telements[t])

\* C30: whenever the scan loop invokes the callback with the element count
\* c, each of elements[0], ..., elements[c - 1] is the element of the source
\* array at el_considered + i, loaded in this iteration (stated for the
\* iterations that read inside the source array).
C30_CallbackSeesLoadedElements ==
  [][(ScanIteration /\ ~oob')
       => \A i \in 0..(called'.num - 1) :
            /\ i < Loaded(telements_from, el_considered)
            /\ called'.elements[i + 1] = telements_from[el_considered + i + 1]]_vars

====
